---- MODULE Spec2Model ----
(***************************************************************************)
(* Model of kitops' "kit init" source resolution:                          *)
(*   pkg/lib/hf/parse.go   ParseHuggingFaceRepo, isValidRepoFormat         *)
(*   cmd init              detectRemoteRepo, isLocalPath,                  *)
(*                         buildPackageFromRepo                            *)
(*                                                                         *)
(* A Go string is a sequence of one-character strings, so that prefix,     *)
(* split, trim and the URL grammar are computed character by character.    *)
(* The alphabet of the inputs is ASCII letters, digits and the characters  *)
(* . / : @ ~ \ ? # ; it has no "%", no "[" and no control character, so    *)
(* percent-decoding and IPv6 literals of net/url are outside the model.    *)
(***************************************************************************)
EXTENDS Integers, Sequences, FiniteSets, TLC

VARIABLES path, fs, pc, repo, repoType, err, isRemote, valid, args, pkg

vars == <<path, fs, pc, repo, repoType, err, isRemote, valid, args, pkg>>

----------------------------------------------------------------------------
(* Character classes and string literals                                   *)

Letters == {"a", "b", "c", "d", "e", "f", "g", "h", "i", "j", "k", "l", "m",
            "n", "o", "p", "q", "r", "s", "t", "u", "v", "w", "x", "y", "z",
            "A", "B", "C", "D", "E", "F", "G", "H", "I", "J", "K", "L", "M",
            "N", "O", "P", "Q", "R", "S", "T", "U", "V", "W", "X", "Y", "Z"}

Digits == {"0", "1", "2", "3", "4", "5", "6", "7", "8", "9"}

S_empty == << >>

S_slash == <<"/">>

S_backslash == <<"\\">>

S_dot == <<".">>

S_dotdot == <<".", ".">>

S_tilde == <<"~">>

S_colon == <<":">>

S_at == <<"@">>

S_question == <<"?">>

S_hash == <<"#">>

S_dotSlash == <<".", "/">>

S_dotdotSlash == <<".", ".", "/">>

S_tildeSlash == <<"~", "/">>

S_tildeBackslash == <<"~", "\\">>

S_schemeSep == <<":", "/", "/">>

S_https == <<"h", "t", "t", "p", "s", ":", "/", "/">>

S_http == <<"h", "t", "t", "p", ":", "/", "/">>

S_datasets == <<"d", "a", "t", "a", "s", "e", "t", "s">>

S_datasetsSlash == S_datasets \o S_slash

S_hf == <<"h", "u", "g", "g", "i", "n", "g", "f", "a", "c", "e", ".", "c", "o">>

S_hfSlash == S_hf \o S_slash

RepoTypeUnknown == "Unknown"

RepoTypeModel == "Model"

RepoTypeDataset == "Dataset"

----------------------------------------------------------------------------
(* Go's strings package, on sequences of characters                        *)

\* sub occurs in s at position i (i + Len(sub) - 1 <= Len(s)).
MatchAt(s, sub, i) == \A k \in 1..Len(sub) : s[i + k - 1] = sub[k]

HasPrefix(s, p) == Len(s) >= Len(p) /\ MatchAt(s, p, 1)

TrimPrefix(s, p) == IF HasPrefix(s, p) THEN SubSeq(s, Len(p) + 1, Len(s)) ELSE s

RECURSIVE IndexFrom(_, _, _)
\* The first position >= i at which sub occurs in s; 0 when there is none.
IndexFrom(s, sub, i) ==
    IF i + Len(sub) - 1 > Len(s) THEN 0
    ELSE IF MatchAt(s, sub, i) THEN i
    ELSE IndexFrom(s, sub, i + 1)

\* strings.Index, 1-based; 0 when sub does not occur.
Index(s, sub) == IndexFrom(s, sub, 1)

Contains(s, sub) == Index(s, sub) # 0

RECURSIVE LastIndexFrom(_, _, _)
\* The last position <= i at which sub occurs in s; 0 when there is none.
LastIndexFrom(s, sub, i) ==
    IF i < 1 THEN 0
    ELSE IF MatchAt(s, sub, i) THEN i
    ELSE LastIndexFrom(s, sub, i - 1)

\* strings.LastIndex, 1-based; 0 when sub does not occur.
LastIndex(s, sub) == LastIndexFrom(s, sub, Len(s) - Len(sub) + 1)

\* strings.Cut: the part before the first sep (all of s when sep is absent).
CutBefore(s, sep) ==
    LET i == Index(s, sep)
    IN  IF i = 0 THEN s ELSE SubSeq(s, 1, i - 1)

RECURSIVE Split(_, _)
\* strings.Split(s, sep) for a non-empty sep: always at least one part.
Split(s, sep) ==
    LET i == Index(s, sep)
    IN  IF i = 0 THEN <<s>>
        ELSE <<SubSeq(s, 1, i - 1)>> \o Split(SubSeq(s, i + Len(sep), Len(s)), sep)

RECURSIVE Join(_, _)
\* strings.Join(parts, sep)
Join(parts, sep) ==
    IF Len(parts) = 0 THEN S_empty
    ELSE IF Len(parts) = 1 THEN parts[1]
    ELSE parts[1] \o sep \o Join(Tail(parts), sep)

RECURSIVE TrimLeft(_, _)
TrimLeft(s, c) ==
    IF Len(s) > 0 /\ s[1] = c THEN TrimLeft(Tail(s), c) ELSE s

RECURSIVE TrimRight(_, _)
TrimRight(s, c) ==
    IF Len(s) > 0 /\ s[Len(s)] = c THEN TrimRight(SubSeq(s, 1, Len(s) - 1), c) ELSE s

\* strings.Trim(s, cutset) for a one-character cutset.
Trim(s, c) == TrimRight(TrimLeft(s, c), c)

----------------------------------------------------------------------------
(* net/url, as far as ParseHuggingFaceRepo uses it: Parse and Hostname      *)

SchemeTail == Digits \cup {"+", "-", "."}

\* Characters url.Parse accepts unescaped in a host (shouldEscape, encodeHost).
HostChars == Letters \cup Digits \cup
             {"!", "$", "&", "'", "(", ")", "*", "+", ",", ";", "=", ":",
              "[", "]", "<", ">", "\"", "-", "_", ".", "~"}

\* Characters url.Parse accepts in userinfo (validUserinfo).
UserinfoChars == Letters \cup Digits \cup
                 {"-", ".", "_", ":", "~", "!", "$", "&", "'", "(", ")",
                  "*", "+", ",", ";", "=", "%", "@"}

\* Positions at which the scan of getScheme stops.
SchemeStops(raw) ==
    { i \in 1..Len(raw) : ~(raw[i] \in Letters \/ (i > 1 /\ raw[i] \in SchemeTail)) }

\* url.getScheme: [err, scheme, rest].
getScheme(raw) ==
    IF SchemeStops(raw) = {} THEN [err |-> FALSE, scheme |-> S_empty, rest |-> raw]
    ELSE LET i == CHOOSE k \in SchemeStops(raw) : \A j \in SchemeStops(raw) : k <= j
         IN  IF raw[i] = ":"
             THEN IF i = 1
                  THEN [err |-> TRUE, scheme |-> S_empty, rest |-> S_empty]
                  ELSE [err |-> FALSE, scheme |-> SubSeq(raw, 1, i - 1),
                        rest |-> SubSeq(raw, i + 1, Len(raw))]
             ELSE [err |-> FALSE, scheme |-> S_empty, rest |-> raw]

\* url.validOptionalPort: "" or ":" followed by digits only.
validOptionalPort(port) ==
    \/ port = S_empty
    \/ /\ port[1] = ":"
       /\ \A i \in 2..Len(port) : port[i] \in Digits

\* url.parseHost: the host is rejected for a bad port or a forbidden character.
parseHostErr(host) ==
    \/ /\ LastIndex(host, S_colon) # 0
       /\ ~validOptionalPort(SubSeq(host, LastIndex(host, S_colon), Len(host)))
    \/ \E i \in 1..Len(host) : host[i] \notin HostChars

\* url.parseAuthority: [err, Host]; the host is what follows the last "@".
parseAuthority(authority) ==
    LET at   == LastIndex(authority, S_at)
        host == IF at = 0 THEN authority ELSE SubSeq(authority, at + 1, Len(authority))
        user == IF at = 0 THEN S_empty ELSE SubSeq(authority, 1, at - 1)
    IN  IF parseHostErr(host) THEN [err |-> TRUE, Host |-> S_empty]
        ELSE IF at # 0 /\ \E i \in 1..Len(user) : user[i] \notin UserinfoChars
             THEN [err |-> TRUE, Host |-> S_empty]
        ELSE [err |-> FALSE, Host |-> host]

\* url.Parse: [err, Host, Path].  The fragment and the query are cut off, the
\* scheme is split off, "//authority" is parsed, the remainder is the path.
urlParse(rawURL) ==
    LET u    == CutBefore(rawURL, S_hash)
        sch  == getScheme(u)
        rest == CutBefore(sch.rest, S_question)
    IN  IF sch.err THEN [err |-> TRUE, Host |-> S_empty, Path |-> S_empty]
        ELSE IF ~HasPrefix(rest, S_slash) /\ sch.scheme # S_empty
             THEN \* rootless path after a scheme: opaque URL, no host, no path
                  [err |-> FALSE, Host |-> S_empty, Path |-> S_empty]
        ELSE IF /\ ~HasPrefix(rest, S_slash)
                /\ Contains(CutBefore(rest, S_slash), S_colon)
             THEN \* first path segment in URL cannot contain colon
                  [err |-> TRUE, Host |-> S_empty, Path |-> S_empty]
        ELSE IF /\ sch.scheme # S_empty \/ ~HasPrefix(rest, <<"/", "/", "/">>)
                /\ HasPrefix(rest, <<"/", "/">>)
             THEN LET after == SubSeq(rest, 3, Len(rest))
                      i     == Index(after, S_slash)
                      auth  == IF i = 0 THEN after ELSE SubSeq(after, 1, i - 1)
                      p     == IF i = 0 THEN S_empty ELSE SubSeq(after, i, Len(after))
                      a     == parseAuthority(auth)
                  IN  IF a.err THEN [err |-> TRUE, Host |-> S_empty, Path |-> S_empty]
                      ELSE [err |-> FALSE, Host |-> a.Host, Path |-> p]
        ELSE [err |-> FALSE, Host |-> S_empty, Path |-> rest]

\* (*URL).Hostname: the host without a valid port.
Hostname(host) ==
    LET colon == LastIndex(host, S_colon)
    IN  IF colon # 0 /\ validOptionalPort(SubSeq(host, colon, Len(host)))
        THEN SubSeq(host, 1, colon - 1)
        ELSE host

----------------------------------------------------------------------------
(* pkg/lib/hf/parse.go                                                     *)

\* Mutant: the parts are counted but not checked for emptiness.
isValidRepoFormat_countOnly(s) == Len(Split(s, S_slash)) = 2

\* isValidRepoFormat checks if a string is in "org/repo" format.
isValidRepoFormat(s) ==
    LET parts == Split(s, S_slash)
    IN  Len(parts) = 2 /\ parts[1] # S_empty /\ parts[2] # S_empty

\* The three values ParseHuggingFaceRepo returns.
Result(r, t, e) == [repo |-> r, repoType |-> t, err |-> e]

ErrNil == "nil"

\* Mutant: any ":" is taken for a scheme separator.
LooksLikeURL_colon(p) == Contains(p, S_colon) \/ HasPrefix(p, S_hfSlash)

\* "looks like a URL (contains :// or starts with domain)"
LooksLikeURL(p) == Contains(p, S_schemeSep) \/ HasPrefix(p, S_hfSlash)

\* Mutant: the scheme is not added.
NormalizeURL_asIs(p) == p

\* "Normalize URL by adding scheme if missing"
NormalizeURL(p) == IF ~Contains(p, S_schemeSep) THEN S_https \o p ELSE p

\* Mutant: the host is compared by prefix, so lookalike domains pass.
TrustedHost_prefix(h) == HasPrefix(h, S_hf)

\* "Security: validate hostname is exactly huggingface.co"
TrustedHost(h) == h = S_hf

\* "Parse path segments"
PathSegments(urlPath) == Split(Trim(urlPath, "/"), S_slash)

\* Mutant: the stripped remainder is returned with the error.
ParseDatasetShort_keepRepo(p) ==
    LET r == TrimPrefix(p, S_datasetsSlash)
    IN  IF ~isValidRepoFormat(r)
        THEN Result(r, RepoTypeUnknown, "invalid dataset repository format")
        ELSE Result(r, RepoTypeDataset, ErrNil)

\* The dataset short form: the "datasets/" prefix is stripped.
ParseDatasetShort(p) ==
    LET r == TrimPrefix(p, S_datasetsSlash)
    IN  IF ~isValidRepoFormat(r)
        THEN Result(S_empty, RepoTypeUnknown, "invalid dataset repository format")
        ELSE Result(r, RepoTypeDataset, ErrNil)

\* Mutant: a model URL is accepted with two or more segments.
ParseURLPath_atLeastTwo(urlPath) ==
    LET pathSegments == PathSegments(urlPath)
    IN  IF Len(pathSegments) >= 1 /\ pathSegments[1] = S_datasets
        THEN IF Len(pathSegments) >= 3
             THEN Result(Join(SubSeq(pathSegments, 2, 3), S_slash), RepoTypeDataset, ErrNil)
             ELSE Result(S_empty, RepoTypeUnknown, "invalid dataset URL")
        ELSE IF Len(pathSegments) >= 2
             THEN Result(Join(SubSeq(pathSegments, 1, 2), S_slash), RepoTypeModel, ErrNil)
             ELSE Result(S_empty, RepoTypeUnknown, "unrecognized HuggingFace URL pattern")

\* The path of a URL on the trusted host.
ParseURLPath(urlPath) ==
    LET pathSegments == PathSegments(urlPath)
    IN  IF Len(pathSegments) >= 1 /\ pathSegments[1] = S_datasets
        THEN IF Len(pathSegments) >= 3
             THEN Result(Join(SubSeq(pathSegments, 2, 3), S_slash), RepoTypeDataset, ErrNil)
             ELSE Result(S_empty, RepoTypeUnknown, "invalid dataset URL")
        ELSE IF Len(pathSegments) = 2
             THEN Result(Join(pathSegments, S_slash), RepoTypeModel, ErrNil)
             ELSE Result(S_empty, RepoTypeUnknown, "unrecognized HuggingFace URL pattern")

\* The URL form.
ParseURLForm(p) ==
    LET parsedURL == urlParse(NormalizeURL(p))
    IN  IF parsedURL.err
        THEN Result(S_empty, RepoTypeUnknown, "invalid URL format")
        ELSE IF ~TrustedHost(Hostname(parsedURL.Host))
             THEN Result(S_empty, RepoTypeUnknown, "unsupported hostname")
        ELSE ParseURLPath(parsedURL.Path)

\* The short form org/repo.
ParseShort(p) ==
    IF isValidRepoFormat(p)
    THEN Result(p, RepoTypeModel, ErrNil)
    ELSE Result(S_empty, RepoTypeUnknown, "invalid repository format")

ParseHuggingFaceRepo(p) ==
    IF HasPrefix(p, S_datasetsSlash) THEN ParseDatasetShort(p)
    ELSE IF LooksLikeURL(p) THEN ParseURLForm(p)
    ELSE ParseShort(p)

----------------------------------------------------------------------------
(* cmd init: classification of the argument                                *)

\* Mutant: the "./" and "../" prefixes are not recognised.
isLocalPath_noDotSlash(p) ==
    \/ p = S_dot \/ p = S_dotdot
    \/ p = S_tilde \/ HasPrefix(p, S_tildeSlash) \/ HasPrefix(p, S_tildeBackslash)
    \/ HasPrefix(p, S_slash)
    \/ HasPrefix(p, S_backslash) \/ (Len(p) >= 2 /\ p[2] = ":")

\* "Check for common local path patterns"
isLocalPath(p) ==
    \/ p = S_dot \/ p = S_dotdot
    \/ HasPrefix(p, S_dotSlash) \/ HasPrefix(p, S_dotdotSlash)
    \/ p = S_tilde \/ HasPrefix(p, S_tildeSlash) \/ HasPrefix(p, S_tildeBackslash)
    \/ HasPrefix(p, S_slash)
    \/ HasPrefix(p, S_backslash) \/ (Len(p) >= 2 /\ p[2] = ":")

\* The error of os.Stat on the argument.
StatNil == "nil"

StatNotExist == "ErrNotExist"

StatPermission == "ErrPermission"

\* What the filesystem holds at the argument and what os.Stat reports there:
\* an entry that exists is reported (nil) or cannot be reached (permission
\* denied on a parent directory); an entry that does not exist is reported
\* missing or cannot be reached either.
FsStates ==
    { [exists |-> TRUE,  stat |-> StatNil],
      [exists |-> TRUE,  stat |-> StatPermission],
      [exists |-> FALSE, stat |-> StatNotExist],
      [exists |-> FALSE, stat |-> StatPermission] }

\* The three values detectRemoteRepo returns.
Detected(remote, r, t) == [isRemote |-> remote, repo |-> r, repoType |-> t]

\* "Path exists locally - treat as local"
StatFound(statErr) == statErr = StatNil

\* Mutant: the error of the parse is ignored.
DetectParsed_ignoreErr(p) ==
    LET parsed == ParseHuggingFaceRepo(p)
    IN  Detected(TRUE, parsed.repo, parsed.repoType)

\* "Path doesn't exist locally - try to parse as a HuggingFace URL/repo"
DetectParsed(p) ==
    LET parsed == ParseHuggingFaceRepo(p)
    IN  IF parsed.err = ErrNil
        THEN Detected(TRUE, parsed.repo, parsed.repoType)
        ELSE Detected(FALSE, S_empty, RepoTypeUnknown)

\* Mutant: the parse fills the results before the existence check clears
\* only the flag.
detectRemoteRepo_parseFirst(p, statErr) ==
    IF isLocalPath(p) THEN Detected(FALSE, S_empty, RepoTypeUnknown)
    ELSE IF StatFound(statErr) THEN [DetectParsed(p) EXCEPT !.isRemote = FALSE]
    ELSE DetectParsed(p)

detectRemoteRepo(p, statErr) ==
    IF isLocalPath(p) THEN Detected(FALSE, S_empty, RepoTypeUnknown)
    ELSE IF StatFound(statErr) THEN Detected(FALSE, S_empty, RepoTypeUnknown)
    ELSE DetectParsed(p)

----------------------------------------------------------------------------
(* cmd init: defaults of the package                                       *)

\* &artifact.Package{}: the fields buildPackageFromRepo may fill.
EmptyPackage == [Name |-> S_empty, Description |-> S_empty, Authors |-> << >>]

\* The name, description and author given on the command line.
Overrides(n, d, a) == [name |-> n, description |-> d, author |-> a]

\* Mutant: name and author are taken from the first two sections instead of
\* the last two.
buildPackageFromRepo_firstTwo(r, name, description, author) ==
    LET sections == Split(r, S_slash)
    IN  [Name |-> IF name # S_empty THEN name
                  ELSE IF Len(sections) >= 2 THEN sections[2]
                  ELSE S_empty,
         Description |-> IF description # S_empty THEN description ELSE S_empty,
         Authors |-> IF author # S_empty THEN <<author>>
                     ELSE IF Len(sections) >= 2 THEN <<sections[1]>>
                     ELSE << >>]

buildPackageFromRepo(r, name, description, author) ==
    LET sections == Split(r, S_slash)
    IN  [Name |-> IF name # S_empty THEN name
                  ELSE IF Len(sections) >= 2 THEN sections[Len(sections)]
                  ELSE S_empty,
         Description |-> IF description # S_empty THEN description ELSE S_empty,
         Authors |-> IF author # S_empty THEN <<author>>
                     ELSE IF Len(sections) >= 2 THEN <<sections[Len(sections) - 1]>>
                     ELSE << >>]

----------------------------------------------------------------------------
(* The arguments the model is run on                                       *)

\* Number of "/"-introduced segments appended to a head.
MaxSegs == 3

S_o == <<"o">>

S_r == <<"r">>

S_evilcom == <<"e", "v", "i", "l", ".", "c", "o", "m">>

\* Segments: empty (doubled or trailing slash), two names, the dataset
\* marker, and a name that carries a query separator.
SegVocab == { S_empty, S_o, S_r, S_datasets, <<"o", "?", "r">> }

Heads ==
    { S_empty, S_o, S_datasets, S_hf,
      S_https \o S_hf, S_http \o S_hf, <<"f", "t", "p">> \o S_schemeSep \o S_hf,
      S_https \o S_hfSlash \o S_datasets, S_http \o S_hfSlash \o S_datasets,
      S_hfSlash \o S_datasets,
      S_https \o S_hf \o S_dot \o S_evilcom,
      S_https \o <<"e", "v", "i", "l">> \o S_hf,
      S_https \o S_hf \o S_at \o S_evilcom,
      S_https \o S_evilcom \o S_at \o S_hf,
      S_https \o S_evilcom \o S_slash \o S_hf,
      S_https \o S_evilcom \o S_question \o S_hf,
      S_https \o S_evilcom \o S_hash \o S_hf,
      S_https \o S_hf \o <<":", "4", "4", "3">>,
      S_https \o S_hf \o <<":", "x">>,
      S_https \o <<"H">> \o Tail(S_hf),
      S_https \o <<"g", "i", "t", "h", "u", "b", ".", "c", "o", "m">>,
      S_https \o S_hf \o S_backslash \o S_evilcom,
      S_https,
      S_schemeSep \o S_hf,
      <<"1", "a">> \o S_schemeSep \o S_hf,
      <<"h", "t", "t", "p", "s", ":">> \o S_hf,
      S_dot, S_dotdot, S_tilde, S_tilde \o S_o, S_tildeBackslash \o S_o,
      S_tilde \o S_colon, S_tilde \o S_colon \o S_o,
      S_backslash \o S_o, <<"C", ":">> }

RECURSIVE Flatten(_)
\* "/" + seg for every segment, concatenated.
Flatten(segs) ==
    IF Len(segs) = 0 THEN S_empty
    ELSE S_slash \o Head(segs) \o Flatten(Tail(segs))

Tails == UNION { [1..n -> SegVocab] : n \in 0..MaxSegs }

Inputs == { h \o Flatten(t) : h \in Heads, t \in Tails }

\* Values of the --name, --desc and --author flags: unset or set.
NameFlags == { S_empty, <<"n">> }

DescFlags == { S_empty, <<"d">> }

AuthorFlags == { S_empty, <<"a">> }

----------------------------------------------------------------------------
(* State machine: one call on one argument                                 *)

Init ==
    /\ path \in Inputs
    /\ fs \in FsStates
    /\ pc = "start"
    /\ repo = S_empty
    /\ repoType = RepoTypeUnknown
    /\ err = ErrNil
    /\ isRemote = FALSE
    /\ valid = FALSE
    /\ args = Overrides(S_empty, S_empty, S_empty)
    /\ pkg = EmptyPackage

\* hf.ParseHuggingFaceRepo(path)
Parse ==
    /\ pc = "start"
    /\ \E res \in {ParseHuggingFaceRepo(path)} :
           /\ repo' = res.repo
           /\ repoType' = res.repoType
           /\ err' = res.err
    /\ pc' = "parsed"
    /\ UNCHANGED <<path, fs, isRemote, valid, args, pkg>>

\* detectRemoteRepo(path), with os.Stat answering from fs
Detect ==
    /\ pc = "start"
    /\ \E res \in {detectRemoteRepo(path, fs.stat)} :
           /\ isRemote' = res.isRemote
           /\ repo' = res.repo
           /\ repoType' = res.repoType
    /\ pc' = "detected"
    /\ UNCHANGED <<path, fs, err, valid, args, pkg>>

\* isValidRepoFormat(path)
Validate ==
    /\ pc = "start"
    /\ valid' = isValidRepoFormat(path)
    /\ pc' = "validated"
    /\ UNCHANGED <<path, fs, repo, repoType, err, isRemote, args, pkg>>

\* runRemoteInit: the package of the repository detectRemoteRepo returned,
\* with the flags of the command line.
BuildRemote ==
    /\ pc = "detected"
    /\ isRemote
    /\ \E n \in NameFlags, d \in DescFlags, a \in AuthorFlags :
           /\ args' = Overrides(n, d, a)
           /\ pkg' = buildPackageFromRepo(repo, n, d, a)
    /\ pc' = "built"
    /\ UNCHANGED <<path, fs, repo, repoType, err, isRemote, valid>>

Next == Parse \/ Detect \/ Validate \/ BuildRemote

Spec == Init /\ [][Next]_vars

\* buildPackageFromRepo called on its own, with any string as repo.
InitBuild == Init /\ fs.stat = StatNotExist

BuildDirect ==
    /\ pc = "start"
    /\ repo' = path
    /\ \E n \in NameFlags, d \in DescFlags, a \in AuthorFlags :
           /\ args' = Overrides(n, d, a)
           /\ pkg' = buildPackageFromRepo(path, n, d, a)
    /\ pc' = "built"
    /\ UNCHANGED <<path, fs, repoType, err, isRemote, valid>>

NextBuild == BuildDirect

SpecBuild == InitBuild /\ [][NextBuild]_vars

TypeOK ==
    /\ pc \in {"start", "parsed", "detected", "validated", "built"}
    /\ fs \in FsStates
    /\ repoType \in {RepoTypeUnknown, RepoTypeModel, RepoTypeDataset}
    /\ isRemote \in BOOLEAN
    /\ valid \in BOOLEAN
    /\ Len(pkg.Authors) <= 1

----------------------------------------------------------------------------
(* Vocabulary of the properties, stated without the operators of the model *)

\* s has exactly one "/" and it is neither the first nor the last character.
OwnerSlashName(s) ==
    /\ Cardinality({ i \in 1..Len(s) : s[i] = "/" }) = 1
    /\ Len(s) >= 3
    /\ s[1] # "/"
    /\ s[Len(s)] # "/"

\* The hostname url.Parse finds in the argument once it is normalised.
ParsedHostname(p) == Hostname(urlParse(NormalizeURL(p)).Host)

\* The argument takes the URL form.
URLForm(p) == Contains(p, S_schemeSep) \/ HasPrefix(p, S_hfSlash)

\* p is head + "/" + owner + "/" + name.
Composed(p, head, owner, name) == p = head \o S_slash \o owner \o S_slash \o name

\* Non-empty names without "/".
Names == { s \in SegVocab : s # S_empty /\ ~Contains(s, S_slash) }

\* Names that also carry neither the query nor the fragment separator.
PlainNames == { s \in Names : ~Contains(s, S_question) /\ ~Contains(s, S_hash) }

DatasetHeads ==
    { S_datasets, S_https \o S_hfSlash \o S_datasets,
      S_http \o S_hfSlash \o S_datasets, S_hfSlash \o S_datasets }

ModelHeads == { S_https \o S_hf, S_http \o S_hf, S_hf }

----------------------------------------------------------------------------
(* Properties                                                              *)

\* C1: an argument in URL form whose parsed hostname is anything but exactly
\* "huggingface.co" is rejected by ParseHuggingFaceRepo: an error, an empty
\* identifier and kind Unknown, never a Model or Dataset reference.
C1_HostMismatchFails ==
    (pc = "parsed" /\ URLForm(path) /\ ParsedHostname(path) # S_hf)
        => (err # ErrNil /\ repo = S_empty /\ repoType = RepoTypeUnknown)

C1_Witness ==
    /\ pc = "parsed"
    /\ path = S_https \o S_hf \o S_dot \o S_evilcom \o S_slash \o S_o \o S_slash \o S_r
    /\ err = "unsupported hostname"

\* C2: an argument that names an existing filesystem entry is classified
\* local by detectRemoteRepo, whatever ParseHuggingFaceRepo makes of it.
C2_ExistingIsLocal ==
    (pc = "detected" /\ fs.exists) => ~isRemote

\* C3 as claimed: every argument starting with "./", "../", "/" or "~" is
\* classified local.
C3_AnyTildeIsLocal ==
    (pc = "detected" /\ (\/ HasPrefix(path, S_dotSlash)
                         \/ HasPrefix(path, S_dotdotSlash)
                         \/ HasPrefix(path, S_slash)
                         \/ HasPrefix(path, S_tilde)))
        => ~isRemote

\* C3 amended: every argument starting with "./", "../", "/", "~/", "~\" or
\* "~:", or equal to "~", is classified local with no repository metadata,
\* whatever the filesystem holds and whether or not it parses as a
\* repository reference.
C3_ExplicitLocalIsLocal ==
    (pc = "detected" /\ (\/ HasPrefix(path, S_dotSlash)
                         \/ HasPrefix(path, S_dotdotSlash)
                         \/ HasPrefix(path, S_slash)
                         \/ path = S_tilde
                         \/ HasPrefix(path, S_tildeSlash)
                         \/ HasPrefix(path, S_tildeBackslash)
                         \/ HasPrefix(path, S_tilde \o S_colon)))
        => (~isRemote /\ repo = S_empty /\ repoType = RepoTypeUnknown)

\* "./o" does not exist and would parse as the model "./o".
C3_Witness ==
    /\ pc = "detected"
    /\ path = S_dotSlash \o S_o
    /\ ~fs.exists
    /\ ParseHuggingFaceRepo(path).err = ErrNil
    /\ ~isRemote

\* C4 as claimed: every argument of the form owner/name parses to itself
\* with kind Model, whatever the owner.
C4_AnyOwnerRoundTrip ==
    (pc = "parsed" /\ OwnerSlashName(path))
        => (err = ErrNil /\ repo = path /\ repoType = RepoTypeModel)

\* C4 amended: every argument of the form owner/name whose owner is neither
\* "datasets" nor "huggingface.co" parses to itself with kind Model.
C4_ShortFormRoundTrip ==
    (/\ pc = "parsed"
     /\ OwnerSlashName(path)
     /\ ~HasPrefix(path, S_datasetsSlash)
     /\ ~HasPrefix(path, S_hfSlash))
        => (err = ErrNil /\ repo = path /\ repoType = RepoTypeModel)

C4_Witness ==
    /\ pc = "parsed"
    /\ path = S_o \o S_slash \o S_r
    /\ repo = path
    /\ repoType = RepoTypeModel

\* C5: the identifier of every successful parse is owner/name: exactly two
\* non-empty parts around one "/".
C5_IdentifierNormalized ==
    (pc = "parsed" /\ err = ErrNil) => OwnerSlashName(repo)

\* C6: when os.Stat fails for a reason other than "does not exist", the
\* argument is not routed on to remote parsing: it never comes back remote.
C6_StatFailureNotRemote ==
    (pc = "detected" /\ fs.stat = StatPermission) => ~isRemote

\* C7: a local classification carries no repository metadata:
\* isRemote = false implies an empty identifier and kind Unknown.
C7_LocalCarriesNothing ==
    (pc = "detected" /\ ~isRemote) => (repo = S_empty /\ repoType = RepoTypeUnknown)

\* "o/r" exists on disk and would parse as a model.
C7_Witness ==
    /\ pc = "detected"
    /\ path = S_o \o S_slash \o S_r
    /\ fs.stat = StatNil
    /\ ~isRemote

\* C8: an argument that is no explicit local form, does not exist and is
\* rejected by ParseHuggingFaceRepo is classified local with an empty
\* identifier and kind Unknown.
C8_ParseFailureIsLocal ==
    (/\ pc = "detected"
     /\ ~isLocalPath(path)
     /\ ~fs.exists
     /\ ParseHuggingFaceRepo(path).err # ErrNil)
        => (~isRemote /\ repo = S_empty /\ repoType = RepoTypeUnknown)

C8_Witness ==
    /\ pc = "detected"
    /\ path = S_https \o S_hf \o S_dot \o S_evilcom \o S_slash \o S_o \o S_slash \o S_r
    /\ ~fs.exists
    /\ ~isRemote

\* C9: for an argument that is no explicit local form and does not exist,
\* a successful parse is returned as remote with exactly its identifier and
\* kind; and remote is returned only for such an argument.
C9_RemoteIffParsed ==
    pc = "detected" =>
        /\ (/\ ~isLocalPath(path)
            /\ ~fs.exists
            /\ ParseHuggingFaceRepo(path).err = ErrNil)
              => (/\ isRemote
                  /\ repo = ParseHuggingFaceRepo(path).repo
                  /\ repoType = ParseHuggingFaceRepo(path).repoType)
        /\ isRemote
              => (/\ ~isLocalPath(path)
                  /\ ~fs.exists
                  /\ ParseHuggingFaceRepo(path).err = ErrNil)

\* C10 as claimed: for every non-empty owner and name without "/", the four
\* dataset forms parse to owner/name, Dataset, and the three model forms
\* (owner other than "datasets") parse to owner/name, Model.
C10_AnyNameForms ==
    pc = "parsed" =>
        \A owner \in Names, name \in Names :
            /\ \A head \in DatasetHeads :
                  Composed(path, head, owner, name)
                      => (/\ err = ErrNil
                          /\ repo = owner \o S_slash \o name
                          /\ repoType = RepoTypeDataset)
            /\ \A head \in ModelHeads :
                  (Composed(path, head, owner, name) /\ owner # S_datasets)
                      => (/\ err = ErrNil
                          /\ repo = owner \o S_slash \o name
                          /\ repoType = RepoTypeModel)

\* C10 amended: the same for every non-empty owner and name that contain
\* none of "/", "?", "#", "%" and no control character.
C10_PlainNameForms ==
    pc = "parsed" =>
        \A owner \in PlainNames, name \in PlainNames :
            /\ \A head \in DatasetHeads :
                  Composed(path, head, owner, name)
                      => (/\ err = ErrNil
                          /\ repo = owner \o S_slash \o name
                          /\ repoType = RepoTypeDataset)
            /\ \A head \in ModelHeads :
                  (Composed(path, head, owner, name) /\ owner # S_datasets)
                      => (/\ err = ErrNil
                          /\ repo = owner \o S_slash \o name
                          /\ repoType = RepoTypeModel)

\* The scheme-less dataset URL has been parsed.
C10_Witness ==
    /\ pc = "parsed"
    /\ path = S_hfSlash \o S_datasets \o S_slash \o S_o \o S_slash \o S_r
    /\ repo = S_o \o S_slash \o S_r
    /\ repoType = RepoTypeDataset

----------------------------------------------------------------------------
(* Vocabulary of the later properties                                      *)

\* The segments of the path url.Parse finds in a URL-form argument, after
\* the leading and trailing "/" are trimmed.
URLPathSegments(p) == Split(Trim(urlParse(NormalizeURL(p)).Path, "/"), S_slash)

\* The argument is a URL that parses and whose hostname is the trusted one.
OnTrustedHost(p) ==
    /\ URLForm(p)
    /\ ~urlParse(NormalizeURL(p)).err
    /\ ParsedHostname(p) = S_hf

\* Positions of "/" in s.
Slashes(s) == { i \in 1..Len(s) : s[i] = "/" }

\* The largest element of a non-empty set of numbers.
Largest(S) == CHOOSE i \in S : \A j \in S : j <= i

\* What follows the last "/" of s; empty when s has no "/".
AfterLastSlash(s) ==
    IF Slashes(s) = {} THEN S_empty
    ELSE SubSeq(s, Largest(Slashes(s)) + 1, Len(s))

\* What stands between the last "/" of s and the "/" before it (or the
\* start of s), as a list of one author; no author when s has no "/".
BeforeLastSlash(s) ==
    IF Slashes(s) = {} THEN << >>
    ELSE LET last   == Largest(Slashes(s))
             before == Slashes(s) \ {last}
             from   == IF before = {} THEN 1 ELSE Largest(before) + 1
         IN  <<SubSeq(s, from, last - 1)>>

----------------------------------------------------------------------------
(* Properties of the URL grammar, the format rule and the package defaults *)

\* C11: for a URL on the trusted host that parses successfully, the same URL
\* followed by "/" parses to the same identifier and kind, and the
\* identifier does not end in "/".
C11_TrailingSlashStripped ==
    (pc = "parsed" /\ OnTrustedHost(path) /\ err = ErrNil)
        => /\ ParseHuggingFaceRepo(path \o S_slash) = Result(repo, repoType, ErrNil)
           /\ repo # S_empty
           /\ repo[Len(repo)] # "/"

\* C12: for a URL on the trusted host, with the segments of its trimmed
\* path: when the first segment is "datasets" the parse succeeds exactly
\* when there are three or more segments and returns segments 2 and 3 with
\* kind Dataset; otherwise it succeeds exactly when there are two segments
\* and returns both with kind Model.
C12_SegmentCounts ==
    (pc = "parsed" /\ OnTrustedHost(path))
        => LET segs == URLPathSegments(path)
           IN  IF segs[1] = S_datasets
               THEN /\ (err = ErrNil) <=> (Len(segs) >= 3)
                    /\ (err = ErrNil) =>
                          /\ repo = segs[2] \o S_slash \o segs[3]
                          /\ repoType = RepoTypeDataset
               ELSE /\ (err = ErrNil) <=> (Len(segs) = 2)
                    /\ (err = ErrNil) =>
                          /\ repo = segs[1] \o S_slash \o segs[2]
                          /\ repoType = RepoTypeModel

\* A dataset URL with a fourth segment, which is ignored.
C12_Witness ==
    /\ pc = "parsed"
    /\ path = S_https \o S_hfSlash \o S_datasets \o S_slash \o S_o \o S_slash \o S_r
                  \o S_slash \o S_o
    /\ repo = S_o \o S_slash \o S_r
    /\ repoType = RepoTypeDataset

\* C13: isValidRepoFormat(s) is true exactly when s is two non-empty parts
\* around a single "/"; so the short form fails on any other string and the
\* dataset short form fails when what follows "datasets/" is not of that
\* form.
C13_TwoSegmentFormat ==
    /\ pc = "validated" => (valid <=> OwnerSlashName(path))
    /\ (pc = "parsed" /\ ~URLForm(path) /\ ~HasPrefix(path, S_datasetsSlash)
           /\ ~OwnerSlashName(path))
          => err # ErrNil
    /\ (pc = "parsed" /\ HasPrefix(path, S_datasetsSlash)
           /\ ~OwnerSlashName(SubSeq(path, Len(S_datasetsSlash) + 1, Len(path))))
          => err # ErrNil

\* A trailing slash leaves an empty second part.
C13_Witness ==
    /\ pc = "validated"
    /\ path = S_o \o S_slash
    /\ ~valid

\* C14: each field of the package is computed on its own: the name is the
\* name flag when set, else what follows the last "/" of repo; the
\* description is the description flag; the authors are the author flag
\* when set, else what precedes the last "/" of repo, else nothing; there
\* is at most one author.
C14_FieldsIndependent ==
    pc = "built" =>
        /\ pkg.Name = IF args.name # S_empty THEN args.name ELSE AfterLastSlash(repo)
        /\ pkg.Description = args.description
        /\ pkg.Authors = IF args.author # S_empty THEN <<args.author>>
                         ELSE BeforeLastSlash(repo)
        /\ Len(pkg.Authors) <= 1

\* Only the name is overridden, on a repo of three sections.
C14_Witness ==
    /\ pc = "built"
    /\ repo = S_slash \o S_o \o S_slash \o S_r
    /\ args = Overrides(<<"n">>, S_empty, S_empty)
    /\ pkg = [Name |-> <<"n">>, Description |-> S_empty, Authors |-> <<S_o>>]

\* C15: ParseHuggingFaceRepo returns no partial result: an identifier or a
\* kind other than Unknown comes only with a nil error, and a nil error
\* comes with kind Model or Dataset.
C15_NoPartialResult ==
    pc = "parsed" =>
        /\ (repo # S_empty \/ repoType # RepoTypeUnknown) => err = ErrNil
        /\ err = ErrNil => repoType \in {RepoTypeModel, RepoTypeDataset}

\* The dataset short form with one segment is rejected.
C15_Witness ==
    /\ pc = "parsed"
    /\ path = S_datasetsSlash \o S_o
    /\ err = "invalid dataset repository format"
    /\ repo = S_empty

\* C16: the package built without flags from a repository detectRemoteRepo
\* returned has a non-empty name and exactly one, non-empty, author, and
\* author + "/" + name is the identifier.
C16_OwnerAndNameDerived ==
    (pc = "built" /\ isRemote /\ args = Overrides(S_empty, S_empty, S_empty))
        => /\ pkg.Name # S_empty
           /\ Len(pkg.Authors) = 1
           /\ pkg.Authors[1] # S_empty
           /\ pkg.Authors[1] \o S_slash \o pkg.Name = repo

====
